---- MODULE Spec2Model ----
(***************************************************************************)
(* Model of the SMA-crossover pipeline of scripts/run_strategy.py:         *)
(* compute_sma_signals (rolling means and the signal column) followed by   *)
(* generate_orders (the Flat/Holding scan with next-bar execution, the     *)
(* end-of-series flush and the timestamp formatting).                      *)
(*                                                                         *)
(* Conventions.  Python indexes bars 0..n-1; the sequences here are        *)
(* 1-based, so bar idx of the code is element idx+1.  Prices are integers  *)
(* and a rolling mean is kept as the exact fraction sum/window, so that    *)
(* comparisons are those of the real numbers the floats stand for.  A      *)
(* value that may be missing (NaN, None, "") is a sequence of length 0 or  *)
(* 1: <<>> is the missing value and <<v>> the value v.  A calendar date is *)
(* its day number.                                                         *)
(***************************************************************************)
EXTENDS Integers, Sequences, FiniteSets, TLC

\* ---------------------------------------------------------------- bounds
MaxLen   == 4      \* longest frame handed directly to generate_orders
MaxRunLen == 4     \* longest price series run through the whole pipeline
MaxOpen  == 2      \* open prices are 1..MaxOpen
MaxRunOpen == 1    \* open prices of a series run through the whole pipeline
MaxClose == 2      \* close prices are 1..MaxClose
MaxGap   == 2      \* longest step, in calendar days, between consecutive bars
MaxWin   == 3      \* window lengths are 1..MaxWin
MaxQty   == 2      \* order sizes are 1..MaxQty
CfgBars  == 3      \* bars in the data file of a run started from a config
MaxRaw   == 3      \* most rows of a raw CSV
MaxRawDay == 2     \* raw rows are dated on days 1..MaxRawDay

\* ------------------------------------------------------- program values
EXEC_HH == 9       \* hour passed to _make_dt
EXEC_MM == 15      \* minute passed to _make_dt
MinutesPerDay == 1440

NaN   == <<>>      \* undefined rolling mean
None  == <<>>      \* open_entry is None
Blank == <<>>      \* the "" of an open-ended record
Some(v) == <<v>>

TzNames == {"Asia/Kolkata", "Mars/Olympus"}   \* timezone names a caller may pass
KnownTz == {"Asia/Kolkata"}                   \* names tz_localize accepts

VARIABLES
  date, open, close,        \* the columns of the input frame
  fast, slow, qty, tzname,  \* configuration
  sma_fast, sma_slow,       \* rolling means (NaN while the window is not full)
  signal, signal_prev,      \* signal column and its shift(1).fillna(0)
  pc, idx, n,               \* position in the code, loop index, len(out)
  open_entry, orders,       \* the simulator's position and the ledger rows
  orders_df,                \* the returned frame (timestamps formatted)
  cfg,                      \* the configuration file as load_config returns it
  out_file,                 \* the "orders" sheet written by run, if any
  first_df,                 \* the frame an earlier, identical call returned
  raw, csv_rows, loaded     \* raw CSV, cleaned CSV, frame load_data returns

inputs == <<date, open, close, fast, slow, qty, tzname>>
\* what neither compute_sma_signals nor generate_orders touches
outside == <<cfg, out_file, first_df, raw, csv_rows, loaded>>
vars == <<date, open, close, fast, slow, qty, tzname, sma_fast, sma_slow,
          signal, signal_prev, pc, idx, n, open_entry, orders, orders_df,
          cfg, out_file, first_df, raw, csv_rows, loaded>>

\* ------------------------------------------------------------- helpers
RECURSIVE SumRange(_, _, _)
SumRange(s, lo, hi) == IF lo > hi THEN 0 ELSE s[hi] + SumRange(s, lo, hi - 1)

SeqsOfLen(S, k) == [1..k -> S]

\* day numbers of k bars on consecutive days
DailyDates(k) == [i \in 1..k |-> i]

\* the same with bar p (and all later bars) g - 1 days late: a g-day step
\* such as a weekend between bars p-1 and p
DatesWithGap(k, p, g) == [i \in 1..k |-> IF i < p THEN i ELSE i + g - 1]

\* sorted, duplicate-free date columns of k bars with at most one long step
DateColumns(k) ==
  {DailyDates(k)} \cup {DatesWithGap(k, p, g) : p \in 1..k, g \in 1..MaxGap}

\* ------------------------------------------------- compute_sma_signals
\* variant: min_periods=1, a partial window already yields a mean
RollingMeanPartial(col, w) ==
  [i \in 1..Len(col) |->
     IF i >= w THEN Some([num |-> SumRange(col, i - w + 1, i), den |-> w])
               ELSE Some([num |-> SumRange(col, 1, i), den |-> i])]

\* Series.rolling(w).mean(): NaN until w observations are in the window
RollingMean(col, w) ==
  [i \in 1..Len(col) |->
     IF i >= w THEN Some([num |-> SumRange(col, i - w + 1, i), den |-> w])
               ELSE NaN]

\* variant: >= in place of >
GreaterOrEqual(a, b) ==
  /\ a # NaN
  /\ b # NaN
  /\ a[1].num * b[1].den >= b[1].num * a[1].den

\* variant: missing means filled with 0 before the comparison
GreaterThanFillZero(a, b) ==
  LET x == IF a = NaN THEN [num |-> 0, den |-> 1] ELSE a[1]
      y == IF b = NaN THEN [num |-> 0, den |-> 1] ELSE b[1]
  IN  x.num * y.den > y.num * x.den

\* a > b on float cells: any comparison with NaN is False
GreaterThan(a, b) ==
  /\ a # NaN
  /\ b # NaN
  /\ a[1].num * b[1].den > b[1].num * a[1].den

\* (sma_fast > sma_slow).astype(int)
SignalColumn(f, s) ==
  [i \in 1..Len(f) |-> IF GreaterThan(f[i], s[i]) THEN 1 ELSE 0]

\* ------------------------------------------------------------ _make_dt
MakeDt(date_val, hh, mm, tz) ==
  IF tz \in KnownTz
    THEN [day |-> date_val, hh |-> hh, mm |-> mm, tz |-> tz]
    ELSE [day |-> date_val, hh |-> hh, mm |-> mm, tz |-> "naive"]

\* Timestamp.tz_localize(None): same wall time, no zone
StripTz(ts) == [ts EXCEPT !.tz = "naive"]

\* variant: the subtraction taken the other way round
DaysBetweenReversed(a, b) ==
  LET ma == a.day * MinutesPerDay + a.hh * 60 + a.mm
      mb == b.day * MinutesPerDay + b.hh * 60 + b.mm
  IN  (mb - ma) \div MinutesPerDay

\* (a - b).days for two naive timestamps (floor of the difference in days)
DaysBetween(a, b) ==
  LET ma == a.day * MinutesPerDay + a.hh * 60 + a.mm
      mb == b.day * MinutesPerDay + b.hh * 60 + b.mm
  IN  (ma - mb) \div MinutesPerDay

\* ------------------------------------------------------ generate_orders
\* variant: the shift is missing, signal_prev is the signal itself
SignalPrevNoShift(sig) == sig

\* variant: fillna(1), bar 0's previous signal counts as 1
SignalPrevFillOne(sig) == [i \in 1..Len(sig) |-> IF i = 1 THEN 1 ELSE sig[i - 1]]

\* out["signal"].shift(1).fillna(0)
SignalPrev(sig) == [i \in 1..Len(sig) |-> IF i = 1 THEN 0 ELSE sig[i - 1]]

\* variant: range(n), the scan also visits the last bar
ScanRangeAll(len) == 0..(len - 1)

\* range(n - 1): the bar indices (0-based) the scan visits
ScanRange(len) == 0..(len - 2)

\* variant: the test of the current signal is missing
EntryCondNoCurrent(i, oe) == signal_prev[i + 1] = 0 /\ oe = None

\* entry signal: prev=0, curr=1, no position open
EntryCond(i, oe) == signal_prev[i + 1] = 0 /\ signal[i + 1] = 1 /\ oe = None

\* variant: the signal tests are missing, any open position is closed
ExitCondAnyHolding(i, oe) == oe # None

\* exit signal: prev=1, curr=0, a position open
ExitCond(i, oe) == signal_prev[i + 1] = 1 /\ signal[i + 1] = 0 /\ oe # None

\* variant: same-bar execution, the fill taken from the signal bar itself
EntryFillSameBar(i) ==
  [entry_dt    |-> MakeDt(date[i + 1], EXEC_HH, EXEC_MM, tzname),
   entry_price |-> open[i + 1],
   qty         |-> qty]

\* the position opened at bar i, executed at the next bar's open
EntryFill(i) ==
  [entry_dt    |-> MakeDt(date[i + 2], EXEC_HH, EXEC_MM, tzname),
   entry_price |-> open[i + 2],
   qty         |-> qty]

\* variant: zeros in place of the blanks
OpenRecordZeroed(pos) ==
  [entry_dt    |-> pos.entry_dt,
   entry_price |-> pos.entry_price,
   qty         |-> pos.qty,
   exit_dt     |-> Blank,
   exit_price  |-> Some(0),
   pnl         |-> Some(0),
   bars_held   |-> Some(0)]

\* the open-ended record written when the series ends in Holding
OpenRecord(pos) ==
  [entry_dt    |-> pos.entry_dt,
   entry_price |-> pos.entry_price,
   qty         |-> pos.qty,
   exit_dt     |-> Blank,
   exit_price  |-> Blank,
   pnl         |-> Blank,
   bars_held   |-> Blank]

\* variant: the exit branch writes the open-ended row
ExitRecordAsOpen(pos, i) == OpenRecord(pos)

\* variant: pnl with the operands of the subtraction exchanged
ExitRecordPnlReversed(pos, i) ==
  LET exit_dt == MakeDt(date[i + 2], EXEC_HH, EXEC_MM, tzname)
  IN  [entry_dt    |-> pos.entry_dt,
       entry_price |-> pos.entry_price,
       qty         |-> pos.qty,
       exit_dt     |-> Some(exit_dt),
       exit_price  |-> Some(open[i + 2]),
       pnl         |-> Some((pos.entry_price - open[i + 2]) * pos.qty),
       bars_held   |-> Some(DaysBetween(StripTz(exit_dt), StripTz(pos.entry_dt)))]

\* the finalized record for position pos closed at bar i
ExitRecord(pos, i) ==
  LET exit_dt == MakeDt(date[i + 2], EXEC_HH, EXEC_MM, tzname)
  IN  [entry_dt    |-> pos.entry_dt,
       entry_price |-> pos.entry_price,
       qty         |-> pos.qty,
       exit_dt     |-> Some(exit_dt),
       exit_price  |-> Some(open[i + 2]),
       pnl         |-> Some((open[i + 2] - pos.entry_price) * pos.qty),
       bars_held   |-> Some(DaysBetween(StripTz(exit_dt), StripTz(pos.entry_dt)))]

\* open_entry after the entry test of bar i
AfterEntry(i, oe) == IF EntryCond(i, oe) THEN Some(EntryFill(i)) ELSE oe

\* variant: a record is appended at every bar at which a position is held
LedgerAppendWhileHolding(i, oe, led) ==
  IF oe # None THEN Append(led, ExitRecord(oe[1], i)) ELSE led

\* ledger after the exit test of bar i, oe being the position at that test
LedgerAfterExit(i, oe, led) ==
  IF ExitCond(i, oe) THEN Append(led, ExitRecord(oe[1], i)) ELSE led

\* variant: open_entry is not reset after an exit
AfterExitKeeps(i, oe) == oe

\* open_entry after the exit test of bar i
AfterExit(i, oe) == IF ExitCond(i, oe) THEN None ELSE oe

\* variant: the end-of-series test is missing
LedgerNoFlush(oe, led) == led

\* variant: the open-ended row is inserted at the head of the ledger
LedgerFlushFirst(oe, led) ==
  IF oe # None THEN <<OpenRecord(oe[1])>> \o led ELSE led

\* ledger after the end-of-series test
LedgerAfterFlush(oe, led) ==
  IF oe # None THEN Append(led, OpenRecord(oe[1])) ELSE led

\* strftime("%Y-%m-%d %H:%M:%S") of the wall time: the zone is not printed
FormatDt(ts) == [day |-> ts.day, hh |-> ts.hh, mm |-> ts.mm, ss |-> 0]

\* the frame returned: entry_dt and exit_dt formatted, a blank exit_dt
\* stays a missing cell, the other columns are untouched
FormatRow(r) ==
  [entry_dt    |-> FormatDt(r.entry_dt),
   entry_price |-> r.entry_price,
   qty         |-> r.qty,
   exit_dt     |-> IF r.exit_dt = Blank THEN Blank ELSE Some(FormatDt(r.exit_dt[1])),
   exit_price  |-> r.exit_price,
   pnl         |-> r.pnl,
   bars_held   |-> r.bars_held]

FormatLedger(led) == [k \in 1..Len(led) |-> FormatRow(led[k])]

\* ------------------------------------------------------------- actions
\* compute_sma_signals (lines 25-31), as called by run
ComputeSignals ==
  /\ pc = "signals"
  /\ sma_fast' = RollingMean(close, fast)
  /\ sma_slow' = RollingMean(close, slow)
  /\ signal' = SignalColumn(sma_fast', sma_slow')
  /\ pc' = "orders"
  /\ UNCHANGED <<inputs, outside, signal_prev, idx, n, open_entry, orders, orders_df>>

\* variant: the ledger list outlives the call (a shared default argument)
StartKeepingLedger ==
  /\ pc = "orders"
  /\ signal_prev' = SignalPrev(signal)
  /\ orders' = orders
  /\ open_entry' = None
  /\ n' = Len(signal)
  /\ idx' = 0
  /\ pc' = "scan"
  /\ UNCHANGED <<inputs, outside, sma_fast, sma_slow, signal, orders_df>>

\* generate_orders, lines 46-51: signal_prev, empty ledger, no position
Start ==
  /\ pc = "orders"
  /\ signal_prev' = SignalPrev(signal)
  /\ orders' = <<>>
  /\ open_entry' = None
  /\ n' = Len(signal)
  /\ idx' = 0
  /\ pc' = "scan"
  /\ UNCHANGED <<inputs, outside, sma_fast, sma_slow, signal, orders_df>>

\* one iteration of the loop of lines 53-82: the entry test, then the exit test
ProcessBar ==
  /\ pc = "scan"
  /\ idx \in ScanRange(n)
  /\ IF idx + 2 > Len(date)
       THEN \* out.iloc[idx + 1] raises IndexError
            /\ pc' = "IndexError"
            /\ UNCHANGED <<idx, open_entry, orders>>
       ELSE LET oe1 == AfterEntry(idx, open_entry)
            IN  /\ orders' = LedgerAfterExit(idx, oe1, orders)
                /\ open_entry' = AfterExit(idx, oe1)
                /\ idx' = idx + 1
                /\ pc' = "scan"
  /\ UNCHANGED <<inputs, outside, sma_fast, sma_slow, signal, signal_prev, n, orders_df>>

\* lines 84-94: the loop is over; a position still open is written open-ended
Flush ==
  /\ pc = "scan"
  /\ idx \notin ScanRange(n)
  /\ orders' = LedgerAfterFlush(open_entry, orders)
  /\ pc' = "format"
  /\ UNCHANGED <<inputs, outside, sma_fast, sma_slow, signal, signal_prev, idx, n,
                 open_entry, orders_df>>

\* lines 96-107: build the frame, format both timestamp columns, return
Format ==
  /\ pc = "format"
  /\ orders_df' = FormatLedger(orders)
  /\ pc' = "done"
  /\ UNCHANGED <<inputs, outside, sma_fast, sma_slow, signal, signal_prev, idx, n,
                 open_entry, orders>>

\* ------------------------------------------------------ specifications
Lens == 0..MaxLen

\* what is not yet computed when a call starts
InitLocals ==
  /\ signal_prev = <<>>
  /\ idx = 0
  /\ n = 0
  /\ open_entry = None
  /\ orders = <<>>
  /\ orders_df = <<>>

InitConfig ==
  /\ qty \in 1..MaxQty
  /\ tzname \in TzNames

\* no configuration file, output file, earlier call or CSV is involved
InitOutside ==
  /\ cfg = <<>>
  /\ out_file = None
  /\ first_df = None
  /\ raw = <<>>
  /\ csv_rows = <<>>
  /\ loaded = <<>>

\* generate_orders called on a frame carrying any 0/1 signal column
Init ==
  /\ \E k \in Lens :
       /\ date \in DateColumns(k)
       /\ open \in SeqsOfLen(1..MaxOpen, k)
       /\ close = [i \in 1..k |-> 1]
       /\ signal \in SeqsOfLen({0, 1}, k)
  /\ InitConfig
  /\ fast = 1
  /\ slow = 1
  /\ sma_fast = <<>>
  /\ sma_slow = <<>>
  /\ pc = "orders"
  /\ InitLocals
  /\ InitOutside

Next == Start \/ ProcessBar \/ Flush \/ Format

Spec == Init /\ [][Next]_vars

\* run: compute_sma_signals on the loaded series, then generate_orders
InitRun ==
  /\ \E k \in 0..MaxRunLen :
       /\ date = DailyDates(k)
       /\ open \in SeqsOfLen(1..MaxRunOpen, k)
       /\ close \in SeqsOfLen(1..MaxClose, k)
  /\ InitConfig
  /\ fast \in 1..MaxWin
  /\ slow \in 1..MaxWin
  /\ sma_fast = <<>>
  /\ sma_slow = <<>>
  /\ signal = <<>>
  /\ pc = "signals"
  /\ InitLocals
  /\ InitOutside

NextRun == ComputeSignals \/ Start \/ ProcessBar \/ Flush \/ Format

SpecRun == InitRun /\ [][NextRun]_vars

\* run on the six-bar series of the end-to-end scenario (closes 10, 10, 10,
\* 12, 12, 8 with fast = 2 and slow = 3), any opens, dates, qty and timezone
ScenarioCloses == <<10, 10, 10, 12, 12, 8>>

InitScenario ==
  /\ close = ScenarioCloses
  /\ date \in DateColumns(Len(ScenarioCloses))
  /\ open \in SeqsOfLen(1..MaxOpen, Len(ScenarioCloses))
  /\ InitConfig
  /\ fast = 2
  /\ slow = 3
  /\ sma_fast = <<>>
  /\ sma_slow = <<>>
  /\ signal = <<>>
  /\ pc = "signals"
  /\ InitLocals
  /\ InitOutside

SpecScenario == InitScenario /\ [][NextRun]_vars

\* the same pipeline called a second time on the same series and
\* configuration: the frame of the first call is set aside, everything the
\* first call left behind is still there when the second call starts
CallAgain ==
  /\ pc = "done"
  /\ first_df = None
  /\ first_df' = Some(orders_df)
  /\ pc' = "signals"
  /\ UNCHANGED <<inputs, sma_fast, sma_slow, signal, signal_prev, idx, n,
                 open_entry, orders, orders_df, cfg, out_file, raw, csv_rows,
                 loaded>>

NextTwice == NextRun \/ CallAgain

SpecTwice == InitRun /\ [][NextTwice]_vars

\* ------------------------------------------------------ claim vocabulary
\* bar numbers below are the code's 0-based indices; bar b is element b+1
Sig(b) == signal[b + 1]
PrevSig(b) == IF b = 0 THEN 0 ELSE signal[b]
Holding == open_entry # None
IsOpenRec(r) == r.exit_dt = Blank
IsFinalRec(r) == r.exit_dt # Blank
OpenRecs(led) == {k \in 1..Len(led) : IsOpenRec(led[k])}
FinalRecs(led) == {k \in 1..Len(led) : IsFinalRec(led[k])}
\* a step of the scan that processes bar idx
BarStep == pc = "scan" /\ pc' = "scan" /\ idx' = idx + 1
Finished == pc \in {"format", "done"}
StampMinutes(ts) == ts.day * MinutesPerDay + ts.hh * 60 + ts.mm

\* C1: at every point of generate_orders at most one position is open: the
\* simulator holds no position or one, the ledger never holds two records
\* with absent exit fields, and while the scan runs (the simulator being the
\* holder of the open position) the ledger holds none.
C1_AtMostOneOpen ==
  /\ Len(open_entry) <= 1
  /\ Cardinality(OpenRecs(orders)) <= 1
  /\ pc = "scan" => OpenRecs(orders) = {}
  /\ OpenRecs(orders) # {} => Holding

C1_Witness ==
  /\ pc = "scan"
  /\ Holding
  /\ FinalRecs(orders) # {}

\* C2: when bar idx (0 <= idx <= n-2) has previous signal 0, signal 1 and the
\* simulator is Flat, processing it leaves the simulator Holding a position
\* priced at the open of bar idx+1, stamped with the date of bar idx+1 (which
\* is not the date of bar idx) at the execution time, with the configured qty.
C2_EntryNextBar ==
  [][(BarStep /\ idx <= n - 2 /\ PrevSig(idx) = 0 /\ Sig(idx) = 1 /\ ~Holding)
       => /\ open_entry' # None
          /\ open_entry'[1].entry_price = open[idx + 2]
          /\ open_entry'[1].entry_dt.day = date[idx + 2]
          /\ open_entry'[1].entry_dt.day # date[idx + 1]
          /\ open_entry'[1].entry_dt.hh = EXEC_HH
          /\ open_entry'[1].entry_dt.mm = EXEC_MM
          /\ open_entry'[1].qty = qty
          /\ orders' = orders]_vars

C2_Witness ==
  /\ pc = "scan"
  /\ idx >= 1
  /\ PrevSig(idx - 1) = 0
  /\ Sig(idx - 1) = 1
  /\ Holding
  /\ open_entry[1].entry_price = open[idx + 1]
  /\ open[idx + 1] # open[idx]
  /\ open_entry[1].qty = MaxQty

\* C3: when bar idx (0 <= idx <= n-2) has previous signal 1, signal 0 and the
\* simulator is Holding, processing it appends exactly one record, finalized,
\* with the entry fields of the position, exit price the open of bar idx+1,
\* exit timestamp on the date of bar idx+1 and
\* pnl = (exit price - entry price) * quantity; the simulator is then Flat.
C3_ExitNextBar ==
  [][(BarStep /\ idx <= n - 2 /\ PrevSig(idx) = 1 /\ Sig(idx) = 0 /\ Holding)
       => /\ Len(orders') = Len(orders) + 1
          /\ SubSeq(orders', 1, Len(orders)) = orders
          /\ LET r == orders'[Len(orders')]
                 pos == open_entry[1]
             IN  /\ r.entry_dt = pos.entry_dt
                 /\ r.entry_price = pos.entry_price
                 /\ r.qty = pos.qty
                 /\ r.exit_price = Some(open[idx + 2])
                 /\ r.exit_dt # Blank
                 /\ r.exit_dt[1].day = date[idx + 2]
                 /\ r.exit_dt[1].hh = EXEC_HH
                 /\ r.exit_dt[1].mm = EXEC_MM
                 /\ r.pnl = Some((open[idx + 2] - pos.entry_price) * pos.qty)
          /\ open_entry' = None]_vars

C3_Witness ==
  /\ pc = "scan"
  /\ idx >= 2
  /\ PrevSig(idx - 1) = 1
  /\ Sig(idx - 1) = 0
  /\ ~Holding
  /\ Len(orders) >= 1
  /\ orders[Len(orders)].pnl = Some(0 - MaxQty)
  /\ orders[Len(orders)].exit_price = Some(open[idx + 1])

\* C4: the scan visits bars 0..n-2 only: no lookahead leaves the frame (no
\* IndexError, for every length including 0 and 1), a bar is processed only
\* when a next bar exists, leaving the loop changes neither the position nor
\* the finalized records (so the last bar fills nothing), and frames of
\* length 0 and 1 end with an empty ledger.
C4_LastBarNoFill ==
  /\ [](pc # "IndexError")
  /\ []((pc = "scan" /\ n >= 1) => idx <= n - 1)
  /\ []((Finished /\ Len(signal) <= 1) => orders = <<>>)
  /\ [][(pc = "scan" /\ pc' # pc)
          => /\ open_entry' = open_entry
             /\ FinalRecs(orders') = FinalRecs(orders)
             /\ \A k \in FinalRecs(orders) : orders'[k] = orders[k]]_vars
  /\ [][(pc = "scan" /\ (open_entry' # open_entry \/ idx' # idx))
          => (idx <= n - 2 /\ idx + 2 <= Len(date) /\ n = Len(date))]_vars

C4_Witness ==
  /\ pc = "done"
  /\ n >= 3
  /\ idx = n - 1
  /\ Sig(n - 1) = 1
  /\ Sig(n - 2) = 0
  /\ Sig(n - 3) = 1
  /\ ~Holding
  /\ Len(orders) = 1

\* C5: once the scan is over, if the simulator is Holding the ledger's last
\* row is the one open-ended record: it carries the position's entry
\* timestamp, entry price and quantity, its exit timestamp, exit price, pnl
\* and holding duration are all blank, and no other row is open-ended; if the
\* simulator is Flat no row has a blank exit field.  The returned frame keeps
\* the blanks.
C5_TerminalOpenRecord ==
  Finished =>
    /\ Holding =>
         /\ Len(orders) >= 1
         /\ LET r == orders[Len(orders)]
            IN  /\ r.entry_dt = open_entry[1].entry_dt
                /\ r.entry_price = open_entry[1].entry_price
                /\ r.qty = open_entry[1].qty
                /\ r.exit_dt = Blank
                /\ r.exit_price = Blank
                /\ r.pnl = Blank
                /\ r.bars_held = Blank
         /\ \A k \in 1..(Len(orders) - 1) :
              /\ orders[k].exit_dt # Blank
              /\ orders[k].exit_price # Blank
              /\ orders[k].pnl # Blank
              /\ orders[k].bars_held # Blank
    /\ ~Holding =>
         \A k \in 1..Len(orders) :
           /\ orders[k].exit_dt # Blank
           /\ orders[k].exit_price # Blank
           /\ orders[k].pnl # Blank
           /\ orders[k].bars_held # Blank
    /\ pc = "done" =>
         /\ Len(orders_df) = Len(orders)
         /\ \A k \in 1..Len(orders) :
              /\ (orders_df[k].exit_dt = Blank) = (orders[k].exit_dt = Blank)
              /\ orders_df[k].exit_price = orders[k].exit_price
              /\ orders_df[k].pnl = orders[k].pnl
              /\ orders_df[k].bars_held = orders[k].bars_held

C5_Witness ==
  /\ pc = "done"
  /\ Holding
  /\ Len(orders) >= 2
  /\ orders_df[Len(orders_df)].exit_dt = Blank

\* bars (0-based) at which the signal column changes 0->1, bar 0's previous
\* signal being 0, and bars at which it changes 1->0
UpBars == {b \in 0..(Len(signal) - 1) : PrevSig(b) = 0 /\ Sig(b) = 1}
DownBars == {b \in 0..(Len(signal) - 1) : PrevSig(b) = 1 /\ Sig(b) = 0}
\* 0->1 changes followed by no later 1->0 change
TrailingUpBars == {b \in UpBars : \A c \in DownBars : c < b}
OneOpenRecordAtEnd ==
  /\ Len(orders) >= 1
  /\ OpenRecs(orders) = {Len(orders)}

\* C6 as stated: any unmatched trailing 0->1 change, wherever it lies, gives
\* exactly one open record, at the end of the ledger.
C6_Original ==
  (pc = "done" /\ TrailingUpBars # {}) => OneOpenRecordAtEnd

\* C6 amended: an unmatched trailing 0->1 change at a bar that has a next bar
\* (index <= n-2) gives exactly one open record, at the end of the ledger.
C6_TrailingEntryOpenRecord ==
  (pc = "done" /\ \E b \in TrailingUpBars : b <= Len(signal) - 2)
     => OneOpenRecordAtEnd

C6_Witness ==
  /\ pc = "done"
  /\ \E b \in TrailingUpBars : b <= Len(signal) - 2 /\ b >= 2
  /\ Len(orders) = 2
  /\ IsOpenRec(orders[2])
  /\ IsFinalRec(orders[1])

\* C7: the ledger never holds more finalized records than the signal column
\* has 0->1 changes (bar 0's previous signal counted as 0).
C7_FinalizedAtMostEntries ==
  Cardinality(FinalRecs(orders)) <= Cardinality(UpBars)

C7_Witness ==
  /\ pc = "done"
  /\ Cardinality(FinalRecs(orders)) = 1
  /\ Cardinality(UpBars) = 1
  /\ Cardinality(DownBars) = 1

\* C8: dates being strictly increasing, the ledger rows are strictly
\* increasing by entry timestamp in the order they were appended (also in the
\* returned frame).
C8_LedgerOrdered ==
  /\ \A j, k \in 1..Len(orders) :
       j < k => StampMinutes(orders[j].entry_dt) < StampMinutes(orders[k].entry_dt)
  /\ \A j, k \in 1..Len(orders_df) :
       j < k => StampMinutes(orders_df[j].entry_dt) < StampMinutes(orders_df[k].entry_dt)

C8_Witness ==
  /\ pc = "done"
  /\ Len(orders_df) = 2
  /\ orders_df[1].exit_dt # Blank
  /\ orders_df[2].entry_dt.day > orders_df[1].exit_dt[1].day

\* sum of the w closes ending at element i
WindowSum(i, w) == SumRange(close, i - w + 1, i)
AvgDefined(i, w) == i >= w
\* fast mean > slow mean, on exact fractions
FastAbove(i) == WindowSum(i, fast) * slow > WindowSum(i, slow) * fast
FlatSeries == \A i, j \in 1..Len(close) : close[i] = close[j]

\* C9: compute_sma_signals returns one signal per bar, in order, with
\* signal = 1 exactly when both averages are defined and fast > slow
\* strictly, and 0 otherwise; a flat-price series has signal 0 on every bar.
C9_SignalIffFastAbove ==
  pc # "signals" =>
    /\ Len(signal) = Len(close)
    /\ Len(sma_fast) = Len(close)
    /\ Len(sma_slow) = Len(close)
    /\ \A i \in 1..Len(close) :
         /\ signal[i] \in {0, 1}
         /\ (sma_fast[i] # NaN) = AvgDefined(i, fast)
         /\ (sma_slow[i] # NaN) = AvgDefined(i, slow)
         /\ (signal[i] = 1) =
              (AvgDefined(i, fast) /\ AvgDefined(i, slow) /\ FastAbove(i))
    /\ FlatSeries => \A i \in 1..Len(close) : signal[i] = 0

C9_Witness ==
  /\ pc # "signals"
  /\ fast < slow
  /\ \E i, j \in 1..Len(close) :
       /\ i < j
       /\ AvgDefined(i, slow)
       /\ signal[i] = 1
       /\ signal[j] = 0
       /\ WindowSum(j, fast) * slow = WindowSum(j, slow) * fast

\* C10: a series with fewer than slow bars has signal 0 on every bar, and
\* the signal is 0 on each of the first window-1 bars of either average.
C10_ShortSeriesFlat ==
  pc # "signals" =>
    /\ Len(close) < slow => \A i \in 1..Len(signal) : signal[i] = 0
    /\ \A i \in 1..Len(signal) :
         (i <= fast - 1 \/ i <= slow - 1) => signal[i] = 0

C10_Witness ==
  /\ pc # "signals"
  /\ Len(close) >= 2
  /\ Len(close) < slow
  /\ fast = 1
  /\ close[2] > close[1]
  /\ \A i \in 1..Len(signal) : signal[i] = 0

\* ------------------------------------------------------------------ run
\* keys run reads, a nested key written parent.child
KeyPaths == {"data_file", "strategy", "strategy.fast", "strategy.slow",
             "execution", "execution.qty", "timezone"}
DefaultTz == "Asia/Kolkata"      \* cfg.get("timezone", "Asia/Kolkata")

\* a JSON value under a window key: an integer or a non-numeric string
IntValue(k) == [kind |-> "int", val |-> k]
TextValue == [kind |-> "text", val |-> 0]

\* variant: a value that is not a number is replaced by 1 instead of raising
ParseIntLenient(v) == IF v.kind = "int" THEN Some(v.val) ELSE Some(1)

\* int(v): the integer, or nothing when int raises ValueError
ParseInt(v) == IF v.kind = "int" THEN Some(v.val) ELSE <<>>

\* the exception lines 120-123 raise on configuration c, in evaluation
\* order, or "ok"
ConfigError(c) ==
  IF "strategy" \notin c.keys \/ "strategy.fast" \notin c.keys THEN "KeyError"
  ELSE IF ParseInt(c.fast) = <<>> THEN "ValueError"
  ELSE IF "strategy.slow" \notin c.keys THEN "KeyError"
  ELSE IF ParseInt(c.slow) = <<>> THEN "ValueError"
  ELSE IF "execution" \notin c.keys \/ "execution.qty" \notin c.keys THEN "KeyError"
  ELSE "ok"

\* lines 118-119: the configuration is read and the data file it names loaded
RunLoad ==
  /\ pc = "load"
  /\ IF "data_file" \in cfg.keys
       THEN /\ date' = DailyDates(CfgBars)
            /\ open' \in SeqsOfLen(1..MaxRunOpen, CfgBars)
            /\ close' \in SeqsOfLen(1..MaxClose, CfgBars)
            /\ pc' = "parse"
       ELSE /\ pc' = "KeyError"
            /\ UNCHANGED <<date, open, close>>
  /\ UNCHANGED <<fast, slow, qty, tzname, sma_fast, sma_slow, signal,
                 signal_prev, idx, n, open_entry, orders, orders_df, outside>>

\* lines 120-123: windows, order size and timezone are taken from cfg
RunParse ==
  /\ pc = "parse"
  /\ IF ConfigError(cfg) = "ok"
       THEN /\ fast' = ParseInt(cfg.fast)[1]
            /\ slow' = ParseInt(cfg.slow)[1]
            /\ qty' = cfg.qty
            /\ tzname' = IF "timezone" \in cfg.keys THEN cfg.timezone ELSE DefaultTz
            /\ pc' = "signals"
       ELSE /\ pc' = ConfigError(cfg)
            /\ UNCHANGED <<fast, slow, qty, tzname>>
  /\ UNCHANGED <<date, open, close, sma_fast, sma_slow, signal, signal_prev,
                 idx, n, open_entry, orders, orders_df, outside>>

\* lines 128-133: the output directory and the "orders" sheet are written
WriteOutput ==
  /\ pc = "done"
  /\ out_file' = Some(orders_df)
  /\ pc' = "written"
  /\ UNCHANGED <<inputs, sma_fast, sma_slow, signal, signal_prev, idx, n,
                 open_entry, orders, orders_df, cfg, first_df, raw, csv_rows,
                 loaded>>

\* key sets of a JSON object: a nested key needs its parent
KeySets ==
  {K \in SUBSET KeyPaths :
     /\ ("strategy.fast" \in K \/ "strategy.slow" \in K) => "strategy" \in K
     /\ "execution.qty" \in K => "execution" \in K}

WindowValues == {IntValue(k) : k \in 1..MaxWin} \cup {TextValue}

\* the configurations load_config may return; the value of an absent key is
\* immaterial and fixed
Configs ==
  {c \in [keys : KeySets, fast : WindowValues, slow : WindowValues,
          qty : 1..MaxQty, timezone : TzNames] :
     /\ "strategy.fast" \notin c.keys => c.fast = TextValue
     /\ "strategy.slow" \notin c.keys => c.slow = TextValue
     /\ "execution.qty" \notin c.keys => c.qty = 1
     /\ "timezone" \notin c.keys => c.timezone = DefaultTz}

InitRunConfig ==
  /\ cfg \in Configs
  /\ date = <<>>
  /\ open = <<>>
  /\ close = <<>>
  /\ fast = 0
  /\ slow = 0
  /\ qty = 0
  /\ tzname = ""
  /\ sma_fast = <<>>
  /\ sma_slow = <<>>
  /\ signal = <<>>
  /\ pc = "load"
  /\ InitLocals
  /\ out_file = None
  /\ first_df = None
  /\ raw = <<>>
  /\ csv_rows = <<>>
  /\ loaded = <<>>

NextConfig == RunLoad \/ RunParse \/ NextRun \/ WriteOutput

SpecConfig == InitRunConfig /\ [][NextConfig]_vars

\* ------------------------------------------ load_clean_save, load_data
\* A raw row is its date cell (missing, or a day and a time of day in
\* minutes) and the state of its open/high/low/close cells: all numbers
\* ("num"), some cell not a number ("text"), some cell empty ("nan").
NaT == <<>>
TimesOfDay == {0, 555}
RawDates == {NaT} \cup {Some([day |-> d, tod |-> t]) : d \in 1..MaxRawDay, t \in TimesOfDay}
RawRows == [date : RawDates, px : {"num", "text", "nan"}]

\* order of sort_values("date"): ascending, missing dates last
DateLeq(a, b) ==
  \/ b = NaT
  \/ /\ a # NaT
     /\ b # NaT
     /\ a[1].day * MinutesPerDay + a[1].tod <= b[1].day * MinutesPerDay + b[1].tod

\* the orders sort_values may leave the rows in (rows with equal dates in any
\* order: the default sort is not stable)
SortedOrders(rows) ==
  {p \in Permutations(1..Len(rows)) :
     \A i, j \in 1..Len(rows) : i < j => DateLeq(rows[p[i]].date, rows[p[j]].date)}

Reorder(rows, p) == [i \in 1..Len(rows) |-> rows[p[i]]]

RECURSIVE KeepRows(_, _, _)
\* the rows with index in K, from index i on, in order
KeepRows(rows, K, i) ==
  IF i > Len(rows) THEN <<>>
  ELSE (IF i \in K THEN <<rows[i]>> ELSE <<>>) \o KeepRows(rows, K, i + 1)

\* drop_duplicates(subset=["date"]): the first row of every date value
DropDuplicates(rows) ==
  KeepRows(rows, {i \in 1..Len(rows) :
                   \A j \in 1..(i - 1) : rows[j].date # rows[i].date}, 1)

\* dropna(subset=[open, high, low, close])
DropNaPrices(rows) ==
  KeepRows(rows, {i \in 1..Len(rows) : rows[i].px # "nan"}, 1)

\* pd.to_numeric(errors="coerce") on the price columns
CoercePrices(rows) ==
  [i \in 1..Len(rows) |->
     [rows[i] EXCEPT !.px = IF rows[i].px = "text" THEN "nan" ELSE rows[i].px]]

\* to_csv(date_format="%Y-%m-%d"): the day is written, the time of day is not
WriteDate(d) == IF d = NaT THEN NaT ELSE Some(d[1].day)
WriteCsv(rows) ==
  [i \in 1..Len(rows) |-> [date |-> WriteDate(rows[i].date), px |-> rows[i].px]]

\* pd.to_datetime on a cell of the cleaned CSV: midnight of the day
ReadDate(d) == IF d = NaT THEN NaT ELSE Some([day |-> d[1], tod |-> 0])
ReadCsv(rows) ==
  [i \in 1..Len(rows) |-> [date |-> ReadDate(rows[i].date), px |-> rows[i].px]]

\* load_clean_save, lines 14-47
CleanCsv ==
  /\ pc = "clean"
  /\ \E p \in SortedOrders(raw) :
       csv_rows' = WriteCsv(DropNaPrices(CoercePrices(DropNaPrices(
                     DropDuplicates(Reorder(raw, p))))))
  /\ pc' = "cleaned"
  /\ UNCHANGED <<inputs, sma_fast, sma_slow, signal, signal_prev, idx, n,
                 open_entry, orders, orders_df, cfg, out_file, first_df, raw,
                 loaded>>

\* load_data, lines 17-22, on the cleaned CSV
LoadData ==
  /\ pc = "cleaned"
  /\ \E p \in SortedOrders(ReadCsv(csv_rows)) :
       loaded' = Reorder(ReadCsv(csv_rows), p)
  /\ pc' = "loaded"
  /\ UNCHANGED <<inputs, sma_fast, sma_slow, signal, signal_prev, idx, n,
                 open_entry, orders, orders_df, cfg, out_file, first_df, raw,
                 csv_rows>>

InitClean ==
  /\ \E k \in 0..MaxRaw : raw \in SeqsOfLen(RawRows, k)
  /\ csv_rows = <<>>
  /\ loaded = <<>>
  /\ pc = "clean"
  /\ date = <<>>
  /\ open = <<>>
  /\ close = <<>>
  /\ fast = 0
  /\ slow = 0
  /\ qty = 0
  /\ tzname = ""
  /\ sma_fast = <<>>
  /\ sma_slow = <<>>
  /\ signal = <<>>
  /\ InitLocals
  /\ cfg = <<>>
  /\ out_file = None
  /\ first_df = None

NextClean == CleanCsv \/ LoadData

SpecClean == InitClean /\ [][NextClean]_vars

\* C11: two calls of compute_sma_signals followed by generate_orders on
\* the same series, windows, qty and timezone return identical frames, row
\* for row and field for field: nothing the first call left behind (its
\* ledger, its position, its columns) reaches the result of the second.
C11_SecondCallSameLedger ==
  (pc = "done" /\ first_df # None) => orders_df = first_df[1]

C11_Witness ==
  /\ pc = "done"
  /\ first_df # None
  /\ Len(orders_df) >= 1
  /\ Len(first_df[1]) >= 1
  /\ Holding

\* C12: the holding duration of every finalized record is the difference in
\* calendar days between the date of its exit-execution bar and the date of
\* its entry-execution bar, whatever the number of bars between them.
C12_DurationInCalendarDays ==
  \A k \in FinalRecs(orders) :
    \E a, b \in 1..Len(date) :
      /\ a < b
      /\ date[a] = orders[k].entry_dt.day
      /\ date[b] = orders[k].exit_dt[1].day
      /\ orders[k].bars_held = Some(date[b] - date[a])

\* a trade over one bar that lasted more than one day
C12_Witness ==
  /\ pc = "done"
  /\ \E k \in FinalRecs(orders) :
       \E a \in 1..(Len(date) - 1) :
         /\ date[a] = orders[k].entry_dt.day
         /\ date[a + 1] = orders[k].exit_dt[1].day
         /\ orders[k].bars_held = Some(MaxGap)
         /\ orders_df[k].bars_held # Some(1)

\* C13: on closes 10, 10, 10, 12, 12, 8 with fast = 2 and slow = 3 the
\* signal column is 0, 0, 0, 1, 1, 0; the ledger ends with exactly one record,
\* entered at bar 4's open on bar 4's date, open-ended (all exit fields
\* blank), and no finalized record.
C13_EndToEndScenario ==
  /\ pc # "signals" => signal = <<0, 0, 0, 1, 1, 0>>
  /\ Finished =>
       /\ Len(orders) = 1
       /\ orders[1].entry_price = open[5]
       /\ orders[1].entry_dt.day = date[5]
       /\ orders[1].qty = qty
       /\ orders[1].exit_dt = Blank
       /\ orders[1].exit_price = Blank
       /\ orders[1].pnl = Blank
       /\ orders[1].bars_held = Blank
       /\ FinalRecs(orders) = {}
  /\ pc = "done" =>
       /\ Len(orders_df) = 1
       /\ orders_df[1].entry_price = open[5]
       /\ orders_df[1].exit_dt = Blank

C13_Witness ==
  /\ pc = "done"
  /\ close = ScenarioCloses
  /\ signal[4] = 1
  /\ signal[6] = 0
  /\ Len(orders_df) = 1
  /\ open[5] # open[4]
  /\ open[5] # open[6]

\* the series is shorter than the slower window, or the computed signal
\* column is constant
ShortSeries == Len(close) < slow
ConstantSignal ==
  pc # "signals" /\ \A i, j \in 1..Len(signal) : signal[i] = signal[j]

\* C14: when the series is shorter than the slower window, or the signal
\* never changes, the pipeline raises nothing, can always take its next step
\* until generate_orders has returned, and its ledger has no record.
C14_DegenerateNoTrades ==
  (ShortSeries \/ ConstantSignal) =>
    /\ pc \in {"signals", "orders", "scan", "format", "done"}
    /\ pc # "done" => ENABLED NextRun
    /\ ~Holding
    /\ orders = <<>>
    /\ orders_df = <<>>

\* a falling series, long enough for both windows, whose signal stays 0
C14_Witness ==
  /\ pc = "done"
  /\ ~ShortSeries
  /\ ConstantSignal
  /\ fast < slow
  /\ Len(close) > slow
  /\ \A i \in 2..Len(close) : close[i] <= close[i - 1]
  /\ close[Len(close)] < close[1]
  /\ orders_df = <<>>

\* bar idx is an entry transition met Flat, or an exit transition met Holding
EntryTaken == PrevSig(idx) = 0 /\ Sig(idx) = 1 /\ ~Holding
ExitTaken == PrevSig(idx) = 1 /\ Sig(idx) = 0 /\ Holding

\* C17: processing a bar that is neither an entry transition met Flat nor an
\* exit transition met Holding leaves the open position (timestamp, price,
\* quantity) and the ledger unchanged; so a 0->1 change met Holding neither
\* opens nor overwrites a position and a 1->0 change met Flat appends nothing.
C17_OtherBarsNoOp ==
  [][(BarStep /\ ~EntryTaken /\ ~ExitTaken)
       => (open_entry' = open_entry /\ orders' = orders)]_vars

\* bars 1 and 2 were processed while Holding, with the signal staying 1
C17_Witness ==
  /\ pc = "scan"
  /\ idx = 3
  /\ Sig(0) = 1
  /\ Sig(1) = 1
  /\ Sig(2) = 1
  /\ Holding
  /\ open_entry[1].entry_dt.day = date[2]
  /\ orders = <<>>

\* C18 as stated: processing bar 0 never opens a position.
C18_Original ==
  [][(BarStep /\ idx = 0) => open_entry' = None]_vars

\* C18 amended: bar 0's previous signal being 0, processing bar 0 opens a
\* position exactly when signal[0] = 1, and that entry is executed at bar 1
\* (its open, its date); with signal[0] = 0 bar 0 triggers no entry.  Bar 0
\* never appends a record.
C18_FirstBarEntersOnlyOnSignal ==
  [][(BarStep /\ idx = 0)
       => /\ (open_entry' # None) = (Sig(0) = 1)
          /\ open_entry' # None =>
               /\ open_entry'[1].entry_price = open[2]
               /\ open_entry'[1].entry_dt.day = date[2]
          /\ orders' = orders]_vars

C18_Witness ==
  /\ pc = "scan"
  /\ idx = 1
  /\ Sig(0) = 1
  /\ Holding
  /\ open_entry[1].entry_price = open[2]
  /\ open[2] # open[1]

\* 0->1 changes at bars below b
UpBarsBelow(b) == {u \in UpBars : u < b}
HeldCount == IF Holding THEN 1 ELSE 0

\* C19: after bar i is processed the simulator is Holding exactly when
\* signal[i] = 1; so an entry transition is always met Flat and an exit
\* transition always met Holding, and the ledger ends with as many records
\* (finalized plus open) as the signal has 0->1 changes at bars 0..n-2.
C19_PositionMirrorsSignal ==
  /\ (pc = "scan" /\ idx >= 1) => (Holding = (Sig(idx - 1) = 1))
  /\ (pc = "scan" /\ idx = 0) => ~Holding
  /\ (pc = "scan" /\ idx <= n - 2) =>
       /\ (PrevSig(idx) = 0 /\ Sig(idx) = 1) => ~Holding
       /\ (PrevSig(idx) = 1 /\ Sig(idx) = 0) => Holding
  /\ pc = "scan" =>
       Len(orders) + HeldCount = Cardinality(UpBarsBelow(idx))
  /\ Finished =>
       /\ n >= 2 => (Holding = (Sig(n - 2) = 1))
       /\ Len(orders) = Cardinality(UpBarsBelow(n - 1))

\* two 0->1 changes, the second one on the last bar: one record
C19_Witness ==
  /\ pc = "done"
  /\ Cardinality(UpBars) = 2
  /\ Cardinality(UpBarsBelow(n - 1)) = 1
  /\ Len(orders) = 1
  /\ ~Holding

\* C20: dates being strictly increasing, every finalized record is exited on
\* a later date than it was entered (holding duration >= 1 day), and every
\* record is entered on a later date than the record before it was exited.
C20_TradesDoNotOverlap ==
  /\ \A k \in FinalRecs(orders) :
       /\ orders[k].exit_dt[1].day > orders[k].entry_dt.day
       /\ orders[k].bars_held[1] >= 1
       /\ \E a, b \in 1..Len(date) :
            a < b /\ date[a] = orders[k].entry_dt.day
                  /\ date[b] = orders[k].exit_dt[1].day
  /\ \A k \in 2..Len(orders) :
       /\ IsFinalRec(orders[k - 1])
       /\ orders[k].entry_dt.day > orders[k - 1].exit_dt[1].day

\* a trade closed at bar 2 and the next one entered at bar 3
C20_Witness ==
  /\ pc = "done"
  /\ Len(orders) = 2
  /\ orders[1].exit_dt = Some(MakeDt(date[3], EXEC_HH, EXEC_MM, tzname))
  /\ orders[2].entry_dt.day = date[4]
  /\ orders[1].bars_held = Some(1)

RequiredKeys == KeyPaths \ {"timezone"}
NonNumericWindow ==
  \/ "strategy.fast" \in cfg.keys /\ cfg.fast.kind # "int"
  \/ "strategy.slow" \in cfg.keys /\ cfg.slow.kind # "int"
Raised == pc \in {"KeyError", "ValueError"}
\* run has not reached line 125: no signal column, no ledger frame, no file,
\* and it either has raised or still has a step to take
StoppedBeforeSimulation ==
  /\ pc \in {"load", "parse", "KeyError", "ValueError"}
  /\ sma_fast = <<>>
  /\ sma_slow = <<>>
  /\ signal = <<>>
  /\ signal_prev = <<>>
  /\ orders_df = <<>>
  /\ out_file = None
  /\ ~Raised => ENABLED NextConfig

\* C15 as stated: any missing key, or a non-numeric window size, makes run
\* raise before compute_sma_signals, generate_orders and the output file.
C15_Original ==
  (cfg.keys # KeyPaths \/ NonNumericWindow) => StoppedBeforeSimulation

\* C15 amended: a missing key other than "timezone", or a non-numeric window
\* size, makes run raise before compute_sma_signals, generate_orders and the
\* output file.
C15_ConfigErrorsFatalFirst ==
  (~(RequiredKeys \subseteq cfg.keys) \/ NonNumericWindow)
     => StoppedBeforeSimulation

\* all keys there, fast a number, slow not: ValueError after the data loaded
C15_Witness ==
  /\ pc = "ValueError"
  /\ cfg.keys = KeyPaths
  /\ cfg.fast.kind = "int"
  /\ cfg.slow.kind = "text"
  /\ Len(close) = CfgBars
  /\ out_file = None

\* C16: the series load_data returns from the cleaned CSV has no missing
\* date and its dates, as calendar days, are strictly increasing (so no two
\* bars share a day), whatever raw CSV the cleaner was given.
C16_CleanDatesStrictlyIncreasing ==
  pc = "loaded" =>
    /\ \A i \in 1..Len(loaded) : loaded[i].date # NaT
    /\ \A i, j \in 1..Len(loaded) :
         i < j => /\ loaded[i].date # NaT
                  /\ loaded[j].date # NaT
                  /\ loaded[i].date[1].day < loaded[j].date[1].day

====
